---- MODULE Spec2Model ----
(***************************************************************************)
(* Model of templates/python-template/script.py: the logging setup, the   *)
(* requirements check, the command-execution helper, the JSON             *)
(* configuration loader and the entry point main with its exception       *)
(* handlers.                                                              *)
(***************************************************************************)
EXTENDS Integers, Sequences, FiniteSets, TLC

VARIABLES
    pc,          \* position of the running function
    argv,        \* command-line arguments after the program name
    args,        \* namespace produced by parser.parse_args()
    version,     \* sys.version_info (major, minor, micro)
    file,        \* the file system object at the configuration path
    level,       \* threshold of the process-wide logger
    records,     \* every logger call made, in order
    output,      \* the log lines that passed the threshold, in order
    config,      \* value bound to `config` in main
    exc,         \* exception in flight / being handled
    outcome,     \* how the function under execution ended
    status,      \* process exit status
    interrupts,  \* number of KeyboardInterrupts delivered
    tracebacks,  \* number of traceback.print_exc() calls
    calls,       \* helper functions invoked, in order
    command,     \* argument list given to run_command
    proc         \* behaviour of the external process

vars == <<pc, argv, args, version, file, level, records, output, config, exc,
          outcome, status, interrupts, tracebacks, calls, command, proc>>

----------------------------------------------------------------------------
(* Bounds *)

MaxArgs == 2
MaxMembers == 2
MaxMajor == 4
MaxMinor == 9
MaxMicro == 1
MaxReturnCode == 2
MaxCommandLen == 2

----------------------------------------------------------------------------
(* logging *)

LevelNo == [DEBUG |-> 10, INFO |-> 20, WARNING |-> 30, ERROR |-> 40]

Levels == {"DEBUG", "INFO", "WARNING", "ERROR"}

Call(lv, msg, a) == [level |-> lv, msg |-> msg, args |-> a]

isEnabledFor(threshold, lv) == LevelNo[lv] >= LevelNo[threshold]

Emit(out, cs, threshold) ==
    out \o SelectSeq(cs, LAMBDA r : isEnabledFor(threshold, r.level))

\* variant: the debug threshold whatever the flag
setup_logging_debug(verbose) == "DEBUG"

setup_logging(verbose) == IF verbose THEN "DEBUG" ELSE "INFO"

Msgs(s) == [i \in 1..Len(s) |-> s[i].msg]

----------------------------------------------------------------------------
(* exceptions *)

Base ==
    [BaseException      |-> "object",
     KeyboardInterrupt  |-> "BaseException",
     SystemExit         |-> "BaseException",
     Exception          |-> "BaseException",
     OSError            |-> "Exception",
     PermissionError    |-> "OSError",
     IsADirectoryError  |-> "OSError",
     FileNotFoundError  |-> "OSError",
     ValueError         |-> "Exception",
     UnicodeDecodeError |-> "ValueError",
     JSONDecodeError    |-> "ValueError",
     TypeError          |-> "Exception",
     CalledProcessError |-> "Exception"]

RECURSIVE IsSubclass(_, _)
IsSubclass(c, d) ==
    IF c = d THEN TRUE
    ELSE IF c \notin DOMAIN Base THEN FALSE
    ELSE IsSubclass(Base[c], d)

NoExc == [cls |-> "None", info |-> "none"]

Exc(c, i) == [cls |-> c, info |-> i]

IsInstance(e, classes) == \E d \in classes : IsSubclass(e.cls, d)

----------------------------------------------------------------------------
(* check_requirements *)

RECURSIVE TupleLess(_, _)
TupleLess(a, b) ==
    IF b = <<>> THEN FALSE
    ELSE IF a = <<>> THEN TRUE
    ELSE IF Head(a) # Head(b) THEN Head(a) < Head(b)
    ELSE TupleLess(Tail(a), Tail(b))

MinVersion == <<3, 8>>

\* variant: only the minor number is compared
check_requirements_minor(v) ==
    IF v[2] < MinVersion[2]
    THEN [ret   |-> FALSE,
          calls |-> <<Call("ERROR", "Python 3.8 or higher is required", <<>>)>>]
    ELSE [ret   |-> TRUE,
          calls |-> <<Call("DEBUG", "All requirements satisfied", <<>>)>>]

check_requirements(v) ==
    IF TupleLess(v, MinVersion)
    THEN [ret   |-> FALSE,
          calls |-> <<Call("ERROR", "Python 3.8 or higher is required", <<>>)>>]
    ELSE [ret   |-> TRUE,
          calls |-> <<Call("DEBUG", "All requirements satisfied", <<>>)>>]

----------------------------------------------------------------------------
(* Python values *)

PyValue(t, v) == [t |-> t, v |-> v]

EmptyDict == PyValue("dict", [k \in {} |-> 0])

Unbound == PyValue("unbound", <<>>)

Sized == {"dict", "list", "str"}

len(x) ==
    IF x.t = "dict" THEN Cardinality(DOMAIN x.v) ELSE Len(x.v)

----------------------------------------------------------------------------
(* The configuration file: what stat() and open() find at the path, and    *)
(* the bytes of a regular file as an encoding plus a JSON text.            *)

Keys == {"a", "b"}

Digits == {"1", "2"}

IntOf == [d \in Digits |-> IF d = "1" THEN 1 ELSE 2]

Members == [name : Keys, value : Digits]

RECURSIVE SeqsUpTo(_, _)
SeqsUpTo(S, n) ==
    IF n = 0 THEN {<<>>}
    ELSE LET shorter == SeqsUpTo(S, n - 1)
         IN  shorter \cup {Append(s, x) : s \in shorter, x \in S}

JsonText(t, body) == [t |-> t, body |-> body]

ObjectTexts == {JsonText("object", b) : b \in SeqsUpTo(Members, MaxMembers)}

OtherTexts ==
    {JsonText("array", <<>>), JsonText("array", <<"1">>),
     JsonText("number", <<"2">>), JsonText("null", <<>>),
     JsonText("string", <<"a">>), JsonText("true", <<>>),
     JsonText("invalid", <<>>)}

JsonTexts == ObjectTexts \cup OtherTexts

Contents == [enc : {"utf8"}, text : JsonTexts]
                \cup {[enc |-> "bad", text |-> JsonText("object", <<>>)]}

NoContent == [enc |-> "utf8", text |-> JsonText("invalid", <<>>)]

FileAt(st, kind, readable, content) ==
    [stat |-> st, kind |-> kind, readable |-> readable, content |-> content]

Absent == FileAt("ENOENT", "none", FALSE, NoContent)

Files ==
    {Absent,
     FileAt("ENAMETOOLONG", "none", FALSE, NoContent),
     FileAt("ok", "dir", TRUE, NoContent),
     FileAt("ok", "file", FALSE, [enc |-> "utf8", text |-> JsonText("object", <<>>)])}
    \cup {FileAt("ok", "file", TRUE, c) : c \in Contents}

----------------------------------------------------------------------------
(* json.load *)

Store(d, k, v) == [x \in (DOMAIN d) \cup {k} |-> IF x = k THEN v ELSE d[x]]

RECURSIVE ParseObject(_, _)
ParseObject(members, d) ==
    IF members = <<>> THEN d
    ELSE ParseObject(Tail(members),
                     Store(d, Head(members).name, IntOf[Head(members).value]))

json_loads(text) ==
    CASE text.t = "object" ->
            [exc |-> NoExc, value |-> PyValue("dict", ParseObject(text.body, EmptyDict.v))]
      [] text.t = "array" ->
            [exc |-> NoExc,
             value |-> PyValue("list", [i \in 1..Len(text.body) |-> IntOf[text.body[i]]])]
      [] text.t = "number" ->
            [exc |-> NoExc, value |-> PyValue("int", IntOf[text.body[1]])]
      [] text.t = "string" ->
            [exc |-> NoExc, value |-> PyValue("str", text.body)]
      [] text.t = "true" ->
            [exc |-> NoExc, value |-> PyValue("bool", TRUE)]
      [] text.t = "null" ->
            [exc |-> NoExc, value |-> PyValue("None", <<>>)]
      [] OTHER ->
            [exc |-> Exc("JSONDecodeError", "parse"), value |-> Unbound]

\* f.read() on a text-mode file opened with encoding='utf-8'
read(content) ==
    IF content.enc = "utf8"
    THEN [exc |-> NoExc, text |-> content.text]
    ELSE [exc |-> Exc("UnicodeDecodeError", "read"), text |-> content.text]

json_load(content) ==
    IF read(content).exc # NoExc
    THEN [exc |-> read(content).exc, value |-> Unbound]
    ELSE json_loads(read(content).text)

\* open(path, 'r', encoding='utf-8')
open(f) ==
    IF f.kind = "dir" THEN Exc("IsADirectoryError", "open")
    ELSE IF ~f.readable THEN Exc("PermissionError", "open")
    ELSE NoExc

\* Path.exists(): stat errors other than "no such file" are raised
IgnoredErrnos == {"ENOENT", "ENOTDIR", "EBADF", "ELOOP"}

exists(f) ==
    IF f.stat = "ok" THEN [exc |-> NoExc, ret |-> TRUE]
    ELSE IF f.stat \in IgnoredErrnos THEN [exc |-> NoExc, ret |-> FALSE]
    ELSE [exc |-> Exc("OSError", "stat"), ret |-> FALSE]

----------------------------------------------------------------------------
(* load_config *)

Returned(value, cs, f) ==
    [kind |-> "return", value |-> value, exc |-> NoExc, calls |-> cs, file |-> f]

Raised(e, cs, f) ==
    [kind |-> "raise", value |-> Unbound, exc |-> e, calls |-> cs, file |-> f]

\* the try statement of load_config with the exception e raised in its body
load_config_except(e, f) ==
    IF IsInstance(e, {"JSONDecodeError"})
    THEN Returned(EmptyDict,
                  <<Call("ERROR", "Invalid JSON in configuration file %s: %s", <<e>>)>>, f)
    ELSE IF IsInstance(e, {"OSError"})
    THEN Returned(EmptyDict,
                  <<Call("ERROR", "Error reading configuration file %s: %s", <<e>>)>>, f)
    ELSE Raised(e, <<>>, f)

\* variant: the parsed value is dropped and the defaults returned
load_config_defaults(f) ==
    IF exists(f).exc # NoExc THEN Raised(exists(f).exc, <<>>, f)
    ELSE IF ~exists(f).ret
    THEN Returned(EmptyDict,
                  <<Call("WARNING", "Configuration file %s not found, using defaults",
                         <<>>)>>, f)
    ELSE IF open(f) # NoExc THEN load_config_except(open(f), f)
    ELSE IF json_load(f.content).exc # NoExc
    THEN load_config_except(json_load(f.content).exc, f)
    ELSE Returned(EmptyDict,
                  <<Call("DEBUG", "Loaded configuration from %s", <<>>)>>, f)

load_config(f) ==
    IF exists(f).exc # NoExc THEN Raised(exists(f).exc, <<>>, f)
    ELSE IF ~exists(f).ret
    THEN Returned(EmptyDict,
                  <<Call("WARNING", "Configuration file %s not found, using defaults",
                         <<>>)>>, f)
    ELSE IF open(f) # NoExc THEN load_config_except(open(f), f)
    ELSE IF json_load(f.content).exc # NoExc
    THEN load_config_except(json_load(f.content).exc, f)
    ELSE Returned(json_load(f.content).value,
                  <<Call("DEBUG", "Loaded configuration from %s", <<>>)>>, f)

----------------------------------------------------------------------------
(* State shared by the functions *)

NoOutcome == [kind |-> "none", value |-> 0, exc |-> NoExc]

Return(v) == [kind |-> "return", value |-> v, exc |-> NoExc]

Raise(e) == [kind |-> "raise", value |-> 0, exc |-> e]

NoArgs == [verbose |-> FALSE, dry_run |-> FALSE, config |-> "default"]

NoProc == [found |-> TRUE, returncode |-> 0, stdout |-> <<>>, stderr |-> <<>>]

\* logger.<level>(...) calls cs made under the current threshold
Logged(cs) ==
    /\ records' = records \o cs
    /\ output' = Emit(output, cs, level)

Idle(start, a, v, f, lv, cmd, p) ==
    /\ pc = start
    /\ argv = a
    /\ args = NoArgs
    /\ version = v
    /\ file = f
    /\ level = lv
    /\ records = <<>>
    /\ output = <<>>
    /\ config = Unbound
    /\ exc = NoExc
    /\ outcome = NoOutcome
    /\ status = 0
    /\ interrupts = 0
    /\ tracebacks = 0
    /\ calls = <<>>
    /\ command = cmd
    /\ proc = p

\* thresholds a caller may have configured: none (root default), INFO, DEBUG
Thresholds == {"WARNING", "INFO", "DEBUG"}

----------------------------------------------------------------------------
(* check_requirements called with a simulated interpreter version *)

Versions ==
    {<<ma, mi, mc>> : ma \in 2..MaxMajor, mi \in 0..MaxMinor, mc \in 0..MaxMicro}

InitReq == \E v \in Versions, lv \in Thresholds : Idle("req_call", <<>>, v, Absent, lv, <<>>, NoProc)

CallCheckRequirements ==
    /\ pc = "req_call"
    /\ pc' = "req_done"
    /\ calls' = Append(calls, "check_requirements")
    /\ Logged(check_requirements(version).calls)
    /\ outcome' = Return(check_requirements(version).ret)
    /\ UNCHANGED <<argv, args, version, file, level, config, exc, status,
                   interrupts, tracebacks, command, proc>>

NextReq == CallCheckRequirements

SpecReq == InitReq /\ [][NextReq]_vars

----------------------------------------------------------------------------
(* load_config called on a path *)

InitLoad == \E f \in Files, lv \in Thresholds : Idle("load_call", <<>>, <<3, 8, 0>>, f, lv, <<>>, NoProc)

CallLoadConfig ==
    /\ pc = "load_call"
    /\ pc' = "load_done"
    /\ calls' = Append(calls, "load_config")
    /\ Logged(load_config(file).calls)
    /\ file' = load_config(file).file
    /\ outcome' = [kind  |-> load_config(file).kind,
                   value |-> load_config(file).value,
                   exc   |-> load_config(file).exc]
    /\ UNCHANGED <<argv, args, version, level, config, exc, status,
                   interrupts, tracebacks, command, proc>>

NextLoad == CallLoadConfig

SpecLoad == InitLoad /\ [][NextLoad]_vars

----------------------------------------------------------------------------
(* run_command *)

Words == {"ls", "-la"}

Commands == SeqsUpTo(Words, MaxCommandLen) \ {<<>>}

Whitespace == {" ", "\n"}

Texts == {<<>>, <<"o">>, <<" ", "o", "\n">>, <<"\n">>}

RECURSIVE lstrip(_)
lstrip(t) ==
    IF t # <<>> /\ Head(t) \in Whitespace THEN lstrip(Tail(t)) ELSE t

RECURSIVE rstrip(_)
rstrip(t) ==
    IF t # <<>> /\ t[Len(t)] \in Whitespace
    THEN rstrip(SubSeq(t, 1, Len(t) - 1))
    ELSE t

strip(t) == rstrip(lstrip(t))

RECURSIVE join(_, _)
join(sep, parts) ==
    IF parts = <<>> THEN <<>>
    ELSE IF Len(parts) = 1 THEN <<parts[1]>>
    ELSE <<parts[1], sep>> \o join(sep, Tail(parts))

Procs ==
    [found : BOOLEAN, returncode : 0..MaxReturnCode, stdout : Texts, stderr : Texts]

CompletedProcess(cmd, p) ==
    [args |-> cmd, returncode |-> p.returncode, stdout |-> p.stdout, stderr |-> p.stderr]

CalledProcessError(cmd, p) ==
    Exc("CalledProcessError",
        [returncode |-> p.returncode, cmd |-> cmd, output |-> p.stdout,
         stderr |-> p.stderr])

\* variant: check=True left out, a failed command yields a result
subprocess_run_unchecked(cmd, p) ==
    IF ~p.found THEN Raise(Exc("FileNotFoundError", "exec"))
    ELSE Return(CompletedProcess(cmd, p))

\* subprocess.run(command, cwd=cwd, capture_output=True, text=True, check=True)
subprocess_run(cmd, p) ==
    IF ~p.found THEN Raise(Exc("FileNotFoundError", "exec"))
    ELSE IF p.returncode # 0 THEN Raise(CalledProcessError(cmd, p))
    ELSE Return(CompletedProcess(cmd, p))

InitRun ==
    \E lv \in Thresholds, cmd \in Commands, p \in Procs :
        Idle("run_call", <<>>, <<3, 8, 0>>, Absent, lv, cmd, p)

RunUnchanged ==
    UNCHANGED <<argv, args, version, file, level, config, status, interrupts,
                tracebacks, command, proc>>

\* lines 70-71
RunCommandEnter ==
    /\ pc = "run_call"
    /\ pc' = "run_try"
    /\ calls' = Append(calls, "run_command")
    /\ Logged(<<Call("DEBUG", "Running command: %s", join(" ", command))>>)
    /\ UNCHANGED <<exc, outcome>>
    /\ RunUnchanged

\* lines 73-82
RunCommandTry ==
    /\ pc = "run_try"
    /\ LET r == subprocess_run(command, proc)
       IN  IF r.kind = "return"
           THEN /\ Logged(<<Call("DEBUG", "Command output: %s",
                                 strip(r.value.stdout))>>)
                /\ outcome' = r
                /\ pc' = "run_done"
                /\ exc' = exc
           ELSE /\ exc' = r.exc
                /\ pc' = IF IsInstance(r.exc, {"CalledProcessError"})
                         THEN "run_except" ELSE "run_propagate"
                /\ UNCHANGED <<records, output, outcome>>
    /\ UNCHANGED calls
    /\ RunUnchanged

\* lines 83-86
RunCommandExcept ==
    /\ pc = "run_except"
    /\ Logged(<<Call("ERROR", "Command failed: %s", <<exc>>),
                Call("ERROR", "stderr: %s", exc.info.stderr)>>)
    /\ outcome' = Raise(exc)
    /\ pc' = "run_done"
    /\ UNCHANGED <<exc, calls>>
    /\ RunUnchanged

\* an exception no handler of run_command names leaves it as raised
RunCommandPropagate ==
    /\ pc = "run_propagate"
    /\ outcome' = Raise(exc)
    /\ pc' = "run_done"
    /\ UNCHANGED <<exc, calls, records, output>>
    /\ RunUnchanged

NextRun ==
    \/ RunCommandEnter
    \/ RunCommandTry
    \/ RunCommandExcept
    \/ RunCommandPropagate

SpecRun == InitRun /\ [][NextRun]_vars

----------------------------------------------------------------------------
(* main: argument parsing *)

Tokens == {"-v", "--verbose", "--dry-run", "--config", "cfg.json", "--bogus"}

Operands == {"cfg.json"}

Argvs == SeqsUpTo(Tokens, MaxArgs)

UsageError == Exc("SystemExit", "usage")

RECURSIVE parse_args(_, _)
parse_args(rest, ns) ==
    IF rest = <<>> THEN [exc |-> NoExc, ns |-> ns]
    ELSE IF Head(rest) \in {"-v", "--verbose"}
    THEN parse_args(Tail(rest), [ns EXCEPT !.verbose = TRUE])
    ELSE IF Head(rest) = "--dry-run"
    THEN parse_args(Tail(rest), [ns EXCEPT !.dry_run = TRUE])
    ELSE IF Head(rest) = "--config"
    THEN IF Len(rest) >= 2 /\ rest[2] \in Operands
         THEN parse_args(SubSeq(rest, 3, Len(rest)), [ns EXCEPT !.config = rest[2]])
         ELSE [exc |-> UsageError, ns |-> ns]
    ELSE [exc |-> UsageError, ns |-> ns]

----------------------------------------------------------------------------
(* main *)

PreTry == {"parse", "setup", "start"}

TryBody == {"check", "reqfail", "load", "len", "dryrun", "logic", "complete"}

Handlers == {"h_kbd", "h_err", "h_unexp"}

\* the except clauses of main, in order
Handler(e) ==
    IF IsInstance(e, {"KeyboardInterrupt"}) THEN "h_kbd"
    ELSE IF IsInstance(e, {"OSError", "ValueError"}) THEN "h_err"
    ELSE IF IsInstance(e, {"Exception"}) THEN "h_unexp"
    ELSE "h_none"

MainVersions == {<<3, 7, MaxMicro>>, <<3, 8, 0>>, <<MaxMajor, 0, 0>>}

Init ==
    \E a \in Argvs, v \in MainVersions, f \in Files :
        Idle("parse", a, v, f, "WARNING", <<>>, NoProc)

\* line 152
ParseArgs ==
    /\ pc = "parse"
    /\ calls' = Append(calls, "parse_args")
    /\ LET r == parse_args(argv, NoArgs)
       IN  IF r.exc = NoExc
           THEN /\ args' = r.ns
                /\ pc' = "setup"
                /\ outcome' = outcome
           ELSE /\ args' = args
                /\ pc' = "exit"
                /\ outcome' = Raise(r.exc)
    /\ UNCHANGED <<argv, version, file, level, records, output, config, exc,
                   status, interrupts, tracebacks, command, proc>>

\* line 155
SetupLogging ==
    /\ pc = "setup"
    /\ calls' = Append(calls, "setup_logging")
    /\ level' = setup_logging(args.verbose)
    /\ pc' = "start"
    /\ UNCHANGED <<argv, args, version, file, records, output, config, exc,
                   outcome, status, interrupts, tracebacks, command, proc>>

\* line 156
LogStart ==
    /\ pc = "start"
    /\ Logged(<<Call("INFO", "Starting", <<>>)>>)
    /\ pc' = "check"
    /\ UNCHANGED <<argv, args, version, file, level, config, exc, outcome,
                   status, interrupts, tracebacks, calls, command, proc>>

\* variant: the result of the requirements check is not tested
CheckRequirements_unchecked ==
    /\ pc = "check"
    /\ calls' = Append(calls, "check_requirements")
    /\ Logged(check_requirements(version).calls)
    /\ pc' = "load"
    /\ UNCHANGED <<argv, args, version, file, level, config, exc, outcome,
                   status, interrupts, tracebacks, command, proc>>

\* line 160
CheckRequirements ==
    /\ pc = "check"
    /\ calls' = Append(calls, "check_requirements")
    /\ Logged(check_requirements(version).calls)
    /\ pc' = IF check_requirements(version).ret THEN "load" ELSE "reqfail"
    /\ UNCHANGED <<argv, args, version, file, level, config, exc, outcome,
                   status, interrupts, tracebacks, command, proc>>

\* lines 161-162
RequirementsFailed ==
    /\ pc = "reqfail"
    /\ Logged(<<Call("ERROR", "Requirements check failed", <<>>)>>)
    /\ outcome' = Return(1)
    /\ pc' = "exit"
    /\ UNCHANGED <<argv, args, version, file, level, config, exc, status,
                   interrupts, tracebacks, calls, command, proc>>

\* line 165
LoadConfig ==
    /\ pc = "load"
    /\ calls' = Append(calls, "load_config")
    /\ LET r == load_config(file)
       IN  /\ Logged(r.calls)
           /\ file' = r.file
           /\ IF r.kind = "return"
              THEN /\ config' = r.value
                   /\ exc' = exc
                   /\ pc' = "len"
              ELSE /\ config' = config
                   /\ exc' = r.exc
                   /\ pc' = Handler(r.exc)
    /\ UNCHANGED <<argv, args, version, level, outcome, status, interrupts,
                   tracebacks, command, proc>>

\* line 169
LogConfigSize ==
    /\ pc = "len"
    /\ IF config.t \in Sized
       THEN /\ Logged(<<Call("DEBUG", "Loaded config with %d entries",
                             <<len(config)>>)>>)
            /\ exc' = exc
            /\ pc' = "dryrun"
       ELSE /\ exc' = Exc("TypeError", "len")
            /\ pc' = Handler(Exc("TypeError", "len"))
            /\ UNCHANGED <<records, output>>
    /\ UNCHANGED <<argv, args, version, file, level, config, outcome, status,
                   interrupts, tracebacks, calls, command, proc>>

\* lines 171-172
DryRunNotice ==
    /\ pc = "dryrun"
    /\ IF args.dry_run
       THEN Logged(<<Call("INFO", "DRY RUN MODE - No changes will be made", <<>>)>>)
       ELSE UNCHANGED <<records, output>>
    /\ pc' = "logic"
    /\ UNCHANGED <<argv, args, version, file, level, config, exc, outcome,
                   status, interrupts, tracebacks, calls, command, proc>>

\* variant: the commented-out example call of run_command is live
ScriptLogic_runs_command ==
    /\ pc = "logic"
    /\ Logged(<<Call("INFO", "Script logic not yet implemented", <<>>)>>)
    /\ calls' = Append(calls, "run_command")
    /\ pc' = "complete"
    /\ UNCHANGED <<argv, args, version, file, level, config, exc, outcome,
                   status, interrupts, tracebacks, command, proc>>

\* lines 174-191
ScriptLogic ==
    /\ pc = "logic"
    /\ Logged(<<Call("INFO", "Script logic not yet implemented", <<>>)>>)
    /\ pc' = "complete"
    /\ UNCHANGED <<argv, args, version, file, level, config, exc, outcome,
                   status, interrupts, tracebacks, calls, command, proc>>

\* lines 193-194
Completed ==
    /\ pc = "complete"
    /\ Logged(<<Call("INFO", "completed successfully", <<>>)>>)
    /\ outcome' = Return(0)
    /\ pc' = "exit"
    /\ UNCHANGED <<argv, args, version, file, level, config, exc, status,
                   interrupts, tracebacks, calls, command, proc>>

\* lines 196-198
HandleInterrupt ==
    /\ pc = "h_kbd"
    /\ Logged(<<Call("WARNING", "Script interrupted by user", <<>>)>>)
    /\ outcome' = Return(130)
    /\ pc' = "exit"
    /\ UNCHANGED <<argv, args, version, file, level, config, exc, status,
                   interrupts, tracebacks, calls, command, proc>>

\* lines 199-203
HandleError ==
    /\ pc = "h_err"
    /\ Logged(<<Call("ERROR", "Handled error: %s", <<exc>>)>>)
    /\ tracebacks' = IF args.verbose THEN tracebacks + 1 ELSE tracebacks
    /\ outcome' = Return(1)
    /\ pc' = "exit"
    /\ UNCHANGED <<argv, args, version, file, level, config, exc, status,
                   interrupts, calls, command, proc>>

\* variant: the last except clause returns 1 instead of re-raising
HandleUnexpected_swallow ==
    /\ pc = "h_unexp"
    /\ Logged(<<Call("ERROR", "Unexpected error: %s", <<exc>>)>>)
    /\ tracebacks' = IF args.verbose THEN tracebacks + 1 ELSE tracebacks
    /\ outcome' = Return(1)
    /\ pc' = "exit"
    /\ UNCHANGED <<argv, args, version, file, level, config, exc, status,
                   interrupts, calls, command, proc>>

\* lines 204-208
HandleUnexpected ==
    /\ pc = "h_unexp"
    /\ Logged(<<Call("ERROR", "Unexpected error: %s", <<exc>>)>>)
    /\ tracebacks' = IF args.verbose THEN tracebacks + 1 ELSE tracebacks
    /\ outcome' = Raise(exc)
    /\ pc' = "exit"
    /\ UNCHANGED <<argv, args, version, file, level, config, exc, status,
                   interrupts, calls, command, proc>>

\* A KeyboardInterrupt delivered instead of the step at pc: inside the try
\* body it enters the first except clause; before the try statement or inside
\* an except clause no clause of main applies and it leaves main.
Interrupt ==
    /\ pc \in PreTry \cup TryBody \cup Handlers
    /\ interrupts' = interrupts + 1
    /\ IF pc \in TryBody
       THEN /\ exc' = Exc("KeyboardInterrupt", "signal")
            /\ pc' = Handler(Exc("KeyboardInterrupt", "signal"))
            /\ outcome' = outcome
       ELSE /\ exc' = exc
            /\ pc' = "exit"
            /\ outcome' = Raise(Exc("KeyboardInterrupt", "signal"))
    /\ UNCHANGED <<argv, args, version, file, level, records, output, config,
                   status, tracebacks, calls, command, proc>>

\* What the interpreter reports for an exception that leaves main: the code of
\* a SystemExit, 1 after a traceback, and for a KeyboardInterrupt 1 before
\* Python 3.8 and death by SIGINT (written -2) from 3.8 on.
UncaughtStatus(e, v) ==
    IF e.cls = "SystemExit" THEN 2
    ELSE IF e.cls = "KeyboardInterrupt" /\ ~TupleLess(v, <<3, 8>>) THEN -2
    ELSE 1

\* line 212: sys.exit(main())
Exit ==
    /\ pc = "exit"
    /\ status' = IF outcome.kind = "return" THEN outcome.value
                 ELSE UncaughtStatus(outcome.exc, version)
    /\ pc' = "done"
    /\ UNCHANGED <<argv, args, version, file, level, records, output, config,
                   exc, outcome, interrupts, tracebacks, calls, command, proc>>

Next ==
    \/ ParseArgs
    \/ SetupLogging
    \/ LogStart
    \/ CheckRequirements
    \/ RequirementsFailed
    \/ LoadConfig
    \/ LogConfigSize
    \/ DryRunNotice
    \/ ScriptLogic
    \/ Completed
    \/ HandleInterrupt
    \/ HandleError
    \/ HandleUnexpected
    \/ Interrupt
    \/ Exit

Spec == Init /\ [][Next]_vars

----------------------------------------------------------------------------
(* Properties *)

Range(q) == {q[i] : i \in 1..Len(q)}

\* (major, minor) lexicographically below (3, 8)
BelowMinimum(v) == v[1] < 3 \/ (v[1] = 3 /\ v[2] < 8)

Index(q, m) == CHOOSE i \in 1..Len(q) : q[i] = m

StartMsg == "Starting"
SatisfiedMsg == "All requirements satisfied"
NotFoundMsg == "Configuration file %s not found, using defaults"
DryRunMsg == "DRY RUN MODE - No changes will be made"
LogicMsg == "Script logic not yet implemented"
CompletedMsg == "completed successfully"

LoadMsgs ==
    {NotFoundMsg, "Loaded configuration from %s",
     "Invalid JSON in configuration file %s: %s",
     "Error reading configuration file %s: %s"}

ParsedOk == outcome.exc.cls # "SystemExit"

\* the path names no usable configuration: nothing there, not readable, or
\* content that is not JSON text or not UTF-8
Missing(f) == f.stat = "ENOENT"
Unreadable(f) == f.stat \notin {"ok", "ENOENT"} \/ (f.stat = "ok" /\ open(f) # NoExc)
Corrupt(f) ==
    /\ f.stat = "ok"
    /\ open(f) = NoExc
    /\ (f.content.enc # "utf8" \/ f.content.text.t = "invalid")

ObjectFile(f) ==
    /\ f.stat = "ok"
    /\ f.kind = "file"
    /\ f.readable
    /\ f.content.enc = "utf8"
    /\ f.content.text.t = "object"

\* C1: for a missing, unreadable or corrupt configuration file load_config
\* returns the empty mapping and no exception leaves it.
C1_LoadNeverRaises ==
    (pc = "load_done" /\ (Missing(file) \/ Unreadable(file) \/ Corrupt(file)))
        => (outcome.kind = "return" /\ outcome.value.t = "dict"
            /\ DOMAIN outcome.value.v = {})

\* C2: on a supported interpreter, whatever the configuration file holds, a
\* run of main that is not interrupted ends by its normal return of 0.
C2_ConfigNeverFails ==
    (pc = "done" /\ ParsedOk /\ ~BelowMinimum(version) /\ interrupts = 0)
        => (outcome.kind = "return" /\ outcome.value = 0)

\* C3: a run of main in which a KeyboardInterrupt was delivered, at whatever
\* point, ends with process exit status 130.
C3_InterruptExits130 ==
    (pc = "done" /\ interrupts > 0) => status = 130

\* C4 as stated: no arguments, no configuration file, supported interpreter:
\* status 0 and the emitted lines are start, requirements satisfied,
\* configuration not found, not yet implemented, completed.
C4_DefaultRunAsStated ==
    (pc = "done" /\ argv = <<>> /\ Missing(file) /\ ~BelowMinimum(version)
        /\ interrupts = 0)
        => (status = 0
            /\ Msgs(output) = <<StartMsg, SatisfiedMsg, NotFoundMsg, LogicMsg,
                                CompletedMsg>>)

\* C4 amended: in that run the status is 0 and the emitted lines are start,
\* configuration not found, not yet implemented, completed; the requirements
\* line is a debug record below the INFO threshold and is not emitted.
C4_DefaultRun ==
    (pc = "done" /\ argv = <<>> /\ Missing(file) /\ ~BelowMinimum(version)
        /\ interrupts = 0)
        => (/\ status = 0
            /\ level = "INFO"
            /\ Msgs(output) = <<StartMsg, NotFoundMsg, LogicMsg, CompletedMsg>>
            /\ Msgs(records) = <<StartMsg, SatisfiedMsg, NotFoundMsg,
                                 "Loaded config with %d entries", LogicMsg,
                                 CompletedMsg>>)

C4_Witness ==
    /\ pc = "done"
    /\ argv = <<>>
    /\ Missing(file)
    /\ version = <<3, 8, 0>>
    /\ interrupts = 0
    /\ status = 0
    /\ Len(output) = 4

RecognizedClasses ==
    {"OSError", "PermissionError", "IsADirectoryError", "FileNotFoundError",
     "ValueError", "UnicodeDecodeError", "JSONDecodeError"}

HandlerInterrupted == outcome.kind = "raise" /\ outcome.exc.cls = "KeyboardInterrupt"

\* C5: an exception other than an interrupt that reaches main's try statement
\* has one outcome by its category: an OSError or ValueError is logged and main
\* returns 1, any other is logged as unexpected and leaves main unchanged; the
\* traceback is printed exactly when verbose is set; main never returns 0
\* after an exception and an unrecognized one never ends in a return.  (An
\* interrupt delivered while the handler runs replaces the outcome by that
\* interrupt.)
C5_ExceptionOutcome ==
    /\ (outcome.kind = "return" /\ outcome.value = 0) => exc = NoExc
    /\ tracebacks > 0 => args.verbose
    /\ (pc \in {"exit", "done"} /\ exc # NoExc /\ exc.cls # "KeyboardInterrupt")
        => /\ exc.cls \notin RecognizedClasses => outcome.kind = "raise"
           /\ ~HandlerInterrupted =>
                /\ tracebacks = IF args.verbose THEN 1 ELSE 0
                /\ records[Len(records)].level = "ERROR"
                /\ records[Len(records)].args = <<exc>>
                /\ output[Len(output)] = records[Len(records)]
                /\ IF exc.cls \in RecognizedClasses
                   THEN /\ outcome.kind = "return"
                        /\ outcome.value = 1
                        /\ records[Len(records)].msg = "Handled error: %s"
                   ELSE /\ outcome = Raise(exc)
                        /\ records[Len(records)].msg = "Unexpected error: %s"

C5_Witness ==
    /\ pc = "done"
    /\ exc.cls = "TypeError"
    /\ outcome = Raise(exc)
    /\ args.verbose
    /\ tracebacks = 1

\* C6: run_command is never invoked by main; with --dry-run, once the dry-run
\* step has run the notice has been emitted, after the configuration load and
\* before the 'not yet implemented' line; without --dry-run the notice is
\* never logged.
C6_DryRun ==
    /\ "run_command" \notin Range(calls)
    /\ ~args.dry_run => DryRunMsg \notin Range(Msgs(records))
    /\ (args.dry_run /\ (pc = "logic" \/ LogicMsg \in Range(Msgs(records))))
        => /\ DryRunMsg \in Range(Msgs(output))
           /\ "load_config" \in Range(calls)
           /\ \E i \in 1..Len(records) :
                /\ records[i].msg \in LoadMsgs
                /\ i < Index(Msgs(records), DryRunMsg)
           /\ LogicMsg \in Range(Msgs(records))
                => Index(Msgs(records), DryRunMsg) < Index(Msgs(records), LogicMsg)

C6_Witness ==
    /\ pc = "done"
    /\ args.dry_run
    /\ status = 0
    /\ DryRunMsg \in Range(Msgs(output))
    /\ LogicMsg \in Range(Msgs(output))

\* C7: when the external process exits non-zero, run_command has logged the
\* failure and the captured stderr at error level and then raises that same
\* CalledProcessError; it returns a result only for exit status zero, and
\* that result carries the captured stdout and stderr.
C7_RunCommandFailure ==
    /\ outcome.kind = "return"
        => (proc.found /\ proc.returncode = 0
            /\ outcome.value = CompletedProcess(command, proc))
    /\ (pc = "run_except") => (outcome = NoOutcome /\ Len(records) = 1)
    /\ (pc = "run_done" /\ proc.found /\ proc.returncode # 0)
        => /\ outcome = Raise(CalledProcessError(command, proc))
           /\ Len(records) = 3
           /\ records[2].level = "ERROR"
           /\ records[2].msg = "Command failed: %s"
           /\ records[3].level = "ERROR"
           /\ records[3].msg = "stderr: %s"
           /\ records[3].args = proc.stderr
           /\ Len(output) >= 2
           /\ Msgs(SubSeq(output, Len(output) - 1, Len(output)))
                = <<"Command failed: %s", "stderr: %s">>

C7_Witness ==
    /\ pc = "run_done"
    /\ proc.found
    /\ proc.returncode = 2
    /\ proc.stderr = <<"o">>
    /\ outcome.kind = "raise"
    /\ outcome.exc.info.returncode = 2

LastIndex(body, n) ==
    CHOOSE i \in 1..Len(body) :
        /\ body[i].name = n
        /\ \A j \in (i + 1)..Len(body) : body[j].name # n

\* C8: calling load_config on a readable file holding a valid JSON object
\* returns a mapping whose keys are exactly the member names of the object,
\* each with the value the object gives it (the last one, where a name is
\* repeated), and leaves the file as it was.
C8_ObjectRoundTrip ==
    [][(pc = "load_call" /\ ObjectFile(file))
        => LET body == file.content.text.body
           IN  /\ file' = file
               /\ outcome'.kind = "return"
               /\ outcome'.value.t = "dict"
               /\ DOMAIN outcome'.value.v = {body[i].name : i \in 1..Len(body)}
               /\ \A n \in DOMAIN outcome'.value.v :
                    \E d \in Digits :
                        /\ body[LastIndex(body, n)].value = d
                        /\ outcome'.value.v[n] = IF d = "1" THEN 1 ELSE 2]_vars

C8_Witness ==
    /\ pc = "load_done"
    /\ ObjectFile(file)
    /\ Len(file.content.text.body) = 2
    /\ outcome.kind = "return"
    /\ DOMAIN outcome.value.v = {"a", "b"}
    /\ outcome.value.v["a"] = 2

\* C9: check_requirements returns false exactly when (major, minor) is
\* lexicographically below (3, 8), and all it does besides is log one
\* message: an error when false, a debug line when true.
C9_RequirementsCheck ==
    pc = "req_done"
        => /\ outcome.kind = "return"
           /\ outcome.value = ~BelowMinimum(version)
           /\ Len(records) = 1
           /\ records[1].level = IF outcome.value THEN "DEBUG" ELSE "ERROR"
           /\ file = Absent /\ config = Unbound /\ status = 0 /\ exc = NoExc
           /\ level \in Thresholds

C9_Witness ==
    /\ pc = "req_done"
    /\ version[1] = 3
    /\ version[2] = 7
    /\ outcome.value = FALSE
    /\ records[1].level = "ERROR"

MainSteps == <<"parse_args", "setup_logging", "check_requirements", "load_config">>

\* C10: main's steps occur in the order argument parsing, logging setup,
\* requirements check, configuration load, dry-run notice, 'not yet
\* implemented', return 0; load_config is called at most once and only after
\* check_requirements returned true; when it returns false main returns 1
\* (unless interrupted) without calling load_config and without the dry-run,
\* 'not yet implemented' and 'completed successfully' lines.
C10_MainOrder ==
    /\ Len(calls) <= Len(MainSteps)
    /\ calls = SubSeq(MainSteps, 1, Len(calls))
    /\ "load_config" \in Range(calls) => ~BelowMinimum(version)
    /\ BelowMinimum(version)
        => /\ Range(Msgs(records)) \cap {DryRunMsg, LogicMsg, CompletedMsg} = {}
           /\ (pc = "done" /\ ParsedOk /\ interrupts = 0)
                => (outcome.kind = "return" /\ outcome.value = 1 /\ status = 1)
    /\ (outcome.kind = "return" /\ outcome.value = 0)
        => /\ calls = MainSteps
           /\ \E m \in LoadMsgs :
                Msgs(records) =
                    <<StartMsg, SatisfiedMsg, m, "Loaded config with %d entries">>
                    \o (IF args.dry_run THEN <<DryRunMsg>> ELSE <<>>)
                    \o <<LogicMsg, CompletedMsg>>

C10_Witness ==
    /\ pc = "done"
    /\ BelowMinimum(version)
    /\ interrupts = 0
    /\ status = 1
    /\ calls = SubSeq(MainSteps, 1, 3)

====
